---- MODULE Spec2Model ----
(***************************************************************************)
(* Model of the rust-irc message codec: the Message model and its wire     *)
(* serialisation (src/src/message.rs, src/src/command.rs), the nom parser  *)
(* (src/src/parser.rs), the typed message views (src/src/messages) and the *)
(* line framer over a byte stream (src/src/irc_stream.rs).                 *)
(*                                                                         *)
(* Text is modelled as what it is on the wire: a sequence of byte values.  *)
(* The nom combinators used by parser.rs (tag!, take_while!, take_while1!, *)
(* map_res!, alt!, complete!, terminated!, preceded!, chain!, many0!) are  *)
(* modelled with the semantics of the nom 1.x/2.x macros the file is       *)
(* written against: a parser returns Done(rest, out), Error or Incomplete. *)
(***************************************************************************)
EXTENDS Integers, Sequences, FiniteSets, TLC

VARIABLES
    pc, msg, wire, result, view,     \* the codec: build, serialise, parse, view
    arg, cmd,                        \* Command::of_word / Command::of_number
    tlog, ret,                       \* IrcStream::send and its transport
    stream, ending, api, pos,        \* the byte stream under an IrcReader
    rbuf, buf, rpc, calls            \* BufReader, next_message, its callers

codecVars == <<pc, msg, wire, result, view>>
ctorVars == <<arg, cmd>>
sendVars == <<tlog, ret>>
readerVars == <<stream, ending, api, pos, rbuf, buf, rpc, calls>>

vars == <<codecVars, ctorVars, sendVars, readerVars>>

(***************************************************************************)
(* Bounds of the model.                                                    *)
(***************************************************************************)
\* longest byte string placed between the ':' of a prefix and the command
MaxPrefixLen == 5
\* longest byte string placed after the command of a parameter line
MaxParamLen == 5
\* longest byte string of a command line
MaxCommandLen == 6
\* most arguments of a Message built by the application
MaxArgs == 2
\* longest argument of a Message built by the application
MaxArgLen == 2
\* longest text handed to Command::of_word
MaxWordLen == 3
\* most terminated lines of a byte stream read by an IrcReader
MaxLines == 2
\* longest byte stream that is not made of lines
MaxStreamLen == 4

(***************************************************************************)
(* Bytes.                                                                  *)
(***************************************************************************)
Seqs(S, n) == UNION {[1..k -> S] : k \in 0..n}

SP == <<32>>
COLON == <<58>>
PING == <<80, 73, 78, 71>>
PONG == <<80, 79, 78, 71>>
PRIVMSG == <<80, 82, 73, 86, 77, 83, 71>>

contains(s, c) == \E k \in 1..Len(s) : s[k] = c

\* parser.rs:61
is_letter(c) == (c >= 97 /\ c <= 122) \/ (c >= 65 /\ c <= 90)

\* parser.rs:66
is_digit(c) == c >= 48 /\ c <= 57

\* is_host_char without the '.' of a dotted hostname
is_host_char_no_dot(c) == is_letter(c) \/ is_digit(c) \/ c = 58

\* parser.rs:74
is_host_char(c) == is_letter(c) \/ is_digit(c) \/ c = 46 \/ c = 58

\* nospcrlfcl that lets the space through
nospcrlfcl_or_space(c) == (c # 0) /\ (c # 13) /\ (c # 10) /\ (c # 58)

\* parser.rs:79  everything except NUL, CR, LF, " " and ":"
nospcrlfcl(c) == (c # 0) /\ (c # 13) /\ (c # 10) /\ (c # 32) /\ (c # 58)

\* parser.rs:84  "[", "]", "\", "`", "_", "^", "{", "|", "}"
is_special(c) ==
    (c = 91) \/ (c = 93) \/ (c = 92) \/ (c = 96) \/ (c = 95) \/ (c = 94)
    \/ (c = 123) \/ (c = 124) \/ (c = 125)

\* parser.rs:89
trailing_char(c) == (c = 32) \/ (c = 58) \/ nospcrlfcl(c)

\* parser.rs:136
is_nickname_char(c) == is_letter(c) \/ is_special(c) \/ is_digit(c) \/ c = 45

\* parser.rs:141  not NUL, CR, LF, " " and "@"
is_username_char(c) == (c # 0) /\ (c # 13) /\ (c # 10) /\ (c # 32) /\ (c # 64)

\* std::str::from_utf8 succeeds exactly on well-formed UTF-8.  The byte
\* strings of this model hold ASCII bytes and the byte 0xFF, which is
\* ill-formed wherever it stands, so validity is "every byte is ASCII".
from_utf8_ok(s) == \A k \in 1..Len(s) : s[k] < 128

(***************************************************************************)
(* Data model: Command, UserInfo, Prefix, Message.                         *)
(***************************************************************************)
Word(w) == [kind |-> "Word", word |-> w, number |-> 0]
Number(n) == [kind |-> "Number", word |-> <<>>, number |-> n]

PrefixNone == [kind |-> "None", nick |-> <<>>, user |-> <<>>, host |-> <<>>]
Server(h) == [kind |-> "Server", nick |-> <<>>, user |-> <<>>, host |-> h]
of_nickname(n) == [kind |-> "Nick", nick |-> n, user |-> <<>>, host |-> <<>>]
of_nickname_host(n, h) ==
    [kind |-> "NickHost", nick |-> n, user |-> <<>>, host |-> h]
of_nickname_user_host(n, u, h) ==
    [kind |-> "NickUserHost", nick |-> n, user |-> u, host |-> h]

\* A panic unwinds out of the constructor and no Command exists: the
\* Option-like result is empty.
\* of_number without the assert!
of_number_unchecked(number) == <<Number(number)>>

\* command.rs:47  assert!(number <= 999), number a u16
of_number(number) == IF number <= 999 THEN <<Number(number)>> ELSE <<>>

\* command.rs:23  the loop asserts, for every char, that its code point is
\* in 0x41..0x5A or 0x61..0x7A; a word without chars passes it
of_word(word) ==
    IF \A k \in 1..Len(word) :
          (word[k] >= 65 /\ word[k] <= 90) \/ (word[k] >= 97 /\ word[k] <= 122)
    THEN <<Word(word)>>
    ELSE <<>>

IsUser(p) == p.kind \in {"Nick", "NickHost", "NickUserHost"}

NewMessage(p, c, a) == [prefix |-> p, command |-> c, arguments |-> a]

(***************************************************************************)
(* Serialisation: Display for Command, UserInfo and Message.               *)
(***************************************************************************)
RECURSIVE Digits(_)
Digits(n) == IF n < 10 THEN <<48 + n>> ELSE Digits(n \div 10) \o <<48 + (n % 10)>>

\* "{:0>3}": right-aligned in a field of width 3 filled with '0'
PadZero3(s) == IF Len(s) >= 3 THEN s ELSE [k \in 1..(3 - Len(s)) |-> 48] \o s

DisplayCommand(c) ==
    IF c.kind = "Word" THEN c.word ELSE PadZero3(Digits(c.number))

DisplayUserInfo(p) ==
    CASE p.kind = "Nick" -> p.nick
      [] p.kind = "NickHost" -> p.nick \o <<64>> \o p.host
      [] p.kind = "NickUserHost" -> p.nick \o <<33>> \o p.user \o <<64>> \o p.host

DisplayPrefix(p) ==
    CASE p.kind = "None" -> <<>>
      [] p.kind = "Server" -> COLON \o p.host \o SP
      [] OTHER -> COLON \o DisplayUserInfo(p) \o SP

\* DisplayArguments with the ':' written before every argument that
\* contains a space, not only the last
RECURSIVE DisplayArgumentsAnyColon(_, _)
DisplayArgumentsAnyColon(args, i) ==
    IF i > Len(args) THEN <<>>
    ELSE SP
         \o (IF contains(args[i], 32) THEN COLON ELSE <<>>)
         \o args[i]
         \o DisplayArgumentsAnyColon(args, i + 1)

\* the loop over self.arguments.iter().enumerate(), from index i on
RECURSIVE DisplayArguments(_, _)
DisplayArguments(args, i) ==
    IF i > Len(args) THEN <<>>
    ELSE SP
         \o (IF i = Len(args) /\ contains(args[i], 32) THEN COLON ELSE <<>>)
         \o args[i]
         \o DisplayArguments(args, i + 1)

DisplayMessage(m) ==
    DisplayPrefix(m.prefix) \o DisplayCommand(m.command)
    \o DisplayArguments(m.arguments, 1)

(***************************************************************************)
(* nom: parse results and the byte-level combinators of parser.rs.         *)
(***************************************************************************)
Done(rest, out) == [tag |-> "Done", rest |-> rest, out |-> out]
Error == [tag |-> "Error", rest |-> <<>>, out |-> <<>>]
Incomplete == [tag |-> "Incomplete", rest |-> <<>>, out |-> <<>>]

Drop(i, n) == SubSeq(i, n + 1, Len(i))
Take(i, n) == SubSeq(i, 1, n)

\* tag!(c) for a one-byte tag: Incomplete on input shorter than the tag,
\* Done when the input starts with it, Error otherwise
tag(i, c) ==
    IF Len(i) < 1 THEN Incomplete
    ELSE IF i[1] = c THEN Done(Drop(i, 1), <<c>>)
    ELSE Error

\* input.iter().position(|c| !pred(c)), or the whole length when there is
\* none; ok[k] is pred(i[k])
SpanLen(ok) ==
    IF \A k \in 1..Len(ok) : ok[k] THEN Len(ok)
    ELSE (CHOOSE k \in 1..Len(ok) : ~ok[k] /\ \A j \in 1..(k - 1) : ok[j]) - 1

\* take_while!(pred): the longest run, possibly empty, always Done
take_while(i, ok) == Done(Drop(i, SpanLen(ok)), Take(i, SpanLen(ok)))

\* take_while1!(pred): Error on empty input and on an empty run
take_while1(i, ok) ==
    IF Len(i) = 0 THEN Error
    ELSE IF SpanLen(ok) = 0 THEN Error
    ELSE Done(Drop(i, SpanLen(ok)), Take(i, SpanLen(ok)))

\* map_res!(p, str::from_utf8): Done becomes Error when the bytes are not
\* UTF-8; the &str produced holds the same bytes
map_res_utf8(r) ==
    IF r.tag = "Done" /\ ~from_utf8_ok(r.out) THEN Error ELSE r

\* complete!(p): Incomplete becomes Error
complete(r) == IF r.tag = "Incomplete" THEN Error ELSE r

(***************************************************************************)
(* parser.rs: the grammar rules.                                           *)
(***************************************************************************)
nickname(i) ==
    map_res_utf8(take_while1(i, [k \in 1..Len(i) |-> is_nickname_char(i[k])]))

username(i) ==
    map_res_utf8(take_while1(i, [k \in 1..Len(i) |-> is_username_char(i[k])]))

host(i) ==
    map_res_utf8(take_while1(i, [k \in 1..Len(i) |-> is_host_char(i[k])]))

\* chain!( n: nickname ~ tag!("!") ~ u: username ~ tag!("@") ~ h: host, .. )
user_info_full(i) ==
    LET n == nickname(i) IN
    IF n.tag # "Done" THEN n ELSE
    LET t1 == tag(n.rest, 33) IN
    IF t1.tag # "Done" THEN t1 ELSE
    LET u == username(t1.rest) IN
    IF u.tag # "Done" THEN u ELSE
    LET t2 == tag(u.rest, 64) IN
    IF t2.tag # "Done" THEN t2 ELSE
    LET h == host(t2.rest) IN
    IF h.tag # "Done" THEN h
    ELSE Done(h.rest, of_nickname_user_host(n.out, u.out, h.out))

\* chain!( n: nickname ~ tag!("@") ~ h: host, .. )
user_info_partial(i) ==
    LET n == nickname(i) IN
    IF n.tag # "Done" THEN n ELSE
    LET t == tag(n.rest, 64) IN
    IF t.tag # "Done" THEN t ELSE
    LET h == host(t.rest) IN
    IF h.tag # "Done" THEN h
    ELSE Done(h.rest, of_nickname_host(n.out, h.out))

\* map!( nickname, |value| UserInfo::of_nickname( value ) )
user_info_nick(i) ==
    LET n == nickname(i) IN
    IF n.tag # "Done" THEN n ELSE Done(n.rest, of_nickname(n.out))

\* user_info with the nickname-only alternative tried first
user_info_nick_first(i) ==
    LET c == user_info_nick(i) IN
    IF c.tag # "Error" THEN c ELSE
    LET a == complete(user_info_full(i)) IN
    IF a.tag # "Error" THEN a
    ELSE complete(user_info_partial(i))

\* alt!: the first alternative that is not Error decides (Done or Incomplete)
user_info(i) ==
    LET a == complete(user_info_full(i)) IN
    IF a.tag # "Error" THEN a ELSE
    LET b == complete(user_info_partial(i)) IN
    IF b.tag # "Error" THEN b
    ELSE user_info_nick(i)

\* map!(user_info, make_user_prefix): Prefix::User(user_info)
user_prefix(i) == user_info(i)

\* map!(host, make_server_prefix)
server_prefix(i) ==
    LET h == host(i) IN
    IF h.tag # "Done" THEN h ELSE Done(h.rest, Server(h.out))

\* terminated!(p, tag!(" ")) applied to the result r of p
terminated_space(r) ==
    IF r.tag # "Done" THEN r ELSE
    LET t == tag(r.rest, 32) IN
    IF t.tag # "Done" THEN t ELSE Done(t.rest, r.out)

\* prefix_alt with the server alternative tried first
prefix_alt_server_first(i) ==
    LET a == complete(terminated_space(server_prefix(i))) IN
    IF a.tag # "Error" THEN a
    ELSE complete(terminated_space(user_prefix(i)))

\* alt!( complete!(terminated!(user_prefix, " ")) |
\*       complete!(terminated!(server_prefix, " ")) )
prefix_alt(i) ==
    LET a == complete(terminated_space(user_prefix(i))) IN
    IF a.tag # "Error" THEN a
    ELSE complete(terminated_space(server_prefix(i)))

\* preceded!( tag!(":"), alt!(..) )
prefix(i) ==
    LET t == tag(i, 58) IN
    IF t.tag # "Done" THEN t ELSE prefix_alt(t.rest)

\* make_word: Command::Word(text), no validation
make_word(w) == Word(w)

\* the value of a run of decimal digits
RECURSIVE DecimalValue(_)
DecimalValue(d) ==
    IF Len(d) = 0 THEN 0
    ELSE 10 * DecimalValue(Take(d, Len(d) - 1)) + (d[Len(d)] - 48)

\* largest u16
U16Max == 65535

\* make_number: u16::from_str(text).unwrap_or(123), wrapped unvalidated
make_number(d) ==
    Number(IF DecimalValue(d) <= U16Max THEN DecimalValue(d) ELSE 123)

\* map_res!( take_while1!(is_letter), make_word )
word_command(i) ==
    LET r == map_res_utf8(take_while1(i, [k \in 1..Len(i) |-> is_letter(i[k])])) IN
    IF r.tag # "Done" THEN r ELSE Done(r.rest, make_word(r.out))

\* map_res!( take_while1!(is_digit), make_number )
numeric_command(i) ==
    LET r == map_res_utf8(take_while1(i, [k \in 1..Len(i) |-> is_digit(i[k])])) IN
    IF r.tag # "Done" THEN r ELSE Done(r.rest, make_number(r.out))

\* alt!( word_command | numeric_command )
command(i) ==
    LET a == word_command(i) IN
    IF a.tag # "Error" THEN a ELSE numeric_command(i)

\* map_res!( take_while1!(nospcrlfcl), str::from_utf8 )
param(i) ==
    map_res_utf8(take_while1(i, [k \in 1..Len(i) |-> nospcrlfcl(i[k])]))

\* map_res!( take_while!(trailing_char), str::from_utf8 )
trailing(i) ==
    map_res_utf8(take_while(i, [k \in 1..Len(i) |-> trailing_char(i[k])]))

\* preceded!( tag!(":"), trailing )
final_param(i) ==
    LET t == tag(i, 58) IN
    IF t.tag # "Done" THEN t ELSE trailing(t.rest)

\* preceded!( tag!(" "), alt!( param | final_param ) )
spaced_param(i) ==
    LET t == tag(i, 32) IN
    IF t.tag # "Done" THEN t ELSE
    LET a == param(t.rest) IN
    IF a.tag # "Error" THEN a ELSE final_param(t.rest)

\* many0!: apply the sub-parser until it fails or the input is used up;
\* res holds the outputs so far.  An Error ends the list, an Incomplete
\* makes the whole list Incomplete.
RECURSIVE many0_params(_, _)
many0_params(input, res) ==
    IF Len(input) = 0 THEN Done(input, res)
    ELSE LET r == spaced_param(input) IN
         CASE r.tag = "Error" -> Done(input, res)
           [] r.tag = "Incomplete" -> Incomplete
           [] OTHER ->
                IF Len(r.rest) = Len(input) THEN Done(input, res)
                ELSE many0_params(r.rest, Append(res, r.out))

params(i) == many0_params(i, <<>>)

\* chain!( prefix: prefix? ~ command: command ~ params: params, .. ):
\* an optional rule that fails with Error is skipped, leaving the input
\* where it was; Incomplete is passed on
message(i) ==
    LET p == prefix(i) IN
    IF p.tag = "Incomplete" THEN Incomplete ELSE
    LET afterPrefix == IF p.tag = "Done" THEN p.rest ELSE i
        c == command(afterPrefix)
    IN
    IF c.tag # "Done" THEN c ELSE
    LET a == params(c.rest) IN
    IF a.tag # "Done" THEN a
    ELSE Done(a.rest,
              NewMessage(IF p.tag = "Done" THEN p.out ELSE PrefixNone,
                         c.out, a.out))

(***************************************************************************)
(* Message::parse, the entry point irc_stream.rs and client.rs call: the   *)
(* message rule followed by the CR LF that ends a line.  It returns the    *)
(* Message and the bytes after the line, or a parse error when the rule    *)
(* fails or the input ends before the line does.                           *)
(***************************************************************************)
ParseOk(m, remaining) == [ok |-> TRUE, msg |-> <<m>>, remaining |-> remaining]
ParseErr == [ok |-> FALSE, msg |-> <<>>, remaining |-> <<>>]

\* the end of the line behind what the message rule r has parsed
crlf(r) ==
    IF r.tag # "Done" THEN ParseErr
    ELSE IF Len(r.rest) >= 2 /\ r.rest[1] = 13 /\ r.rest[2] = 10
         THEN ParseOk(r.out, Drop(r.rest, 2))
         ELSE ParseErr

parse(i) == crlf(message(i))

(***************************************************************************)
(* messages/privmsg.rs: the PRIVMSG view.  Option<T> is a sequence of at   *)
(* most one element.                                                       *)
(***************************************************************************)
\* as_privmsg without the check of the number of arguments being too large
as_privmsg_at_least_two(m) ==
    IF m.command # Word(PRIVMSG) THEN <<>>
    ELSE IF Len(m.arguments) < 2 THEN <<>>
    ELSE IF ~IsUser(m.prefix) THEN <<>>
    ELSE <<[from |-> m.prefix, to |-> m.arguments[1], text |-> m.arguments[2]]>>

as_privmsg(m) ==
    IF m.command # Word(PRIVMSG) THEN <<>>
    ELSE IF Len(m.arguments) # 2 THEN <<>>
    ELSE IF ~IsUser(m.prefix) THEN <<>>
    ELSE <<[from |-> m.prefix, to |-> m.arguments[1], text |-> m.arguments[2]]>>

(***************************************************************************)
(* messages/ping.rs: the PING view and the PONG that answers it.           *)
(***************************************************************************)
as_ping(m) ==
    IF m.command # Word(PING) THEN <<>>
    ELSE <<[arguments |-> m.arguments]>>

\* pong that builds a PONG without the arguments of the PING
pong_no_arguments(p) == NewMessage(PrefixNone, Word(PONG), <<>>)

\* Message::from_strs(Prefix::None, commands::PONG(), arg_copy)
pong(p) == NewMessage(PrefixNone, Word(PONG), p.arguments)

(***************************************************************************)
(* Inputs.                                                                 *)
(***************************************************************************)
\* 'a' (letter), '-' (nickname only), '.' and ':' (host only), '!', '@',
\* ' ', '#' (username only)
PrefixBytes == {97, 45, 46, 58, 33, 64, 32, 35}

\* 'a', ':', ' ', CR, LF, 0xFF (not UTF-8)
ParamBytes == {97, 58, 32, 13, 10, 255}

\* 'P', '1', '9', ' '
CommandBytes == {80, 49, 57, 32}

\* 'a', ' ', ':'
ArgBytes == {97, 32, 58}

\* " PING" and " PRIVMSG a b": what follows a prefix token
PingTail == SP \o PING

PrivmsgTail == SP \o PRIVMSG \o <<32, 97, 32, 98>>

\* "005 nick A B :C D E" (spec section 8), "PING a:b a" and
\* "PRIVMSG someone :Hey what is up" (parser.rs, message_no_prefix)
ExampleLines ==
    { <<48, 48, 53, 32, 110, 105, 99, 107, 32, 65, 32, 66, 32, 58, 67, 32, 68, 32, 69>>,
      <<80, 73, 78, 71, 32, 97, 58, 98, 32, 97>>,
      <<80, 82, 73, 86, 77, 83, 71, 32, 115, 111, 109, 101, 111, 110, 101, 32,
        58, 72, 101, 121, 32, 119, 104, 97, 116, 32, 105, 115, 32, 117, 112>> }

\* a line with a prefix position: ':' bytes, then a command or nothing
PrefixLines ==
    {COLON \o body \o tail :
        body \in Seqs(PrefixBytes, MaxPrefixLen),
        tail \in {PingTail, PrivmsgTail, <<>>}}

\* a line with parameters: command bytes
ParamLines ==
    {PING \o body : body \in Seqs(ParamBytes, MaxParamLen)} \cup ExampleLines

\* a line that is a command token and what follows it
CommandLines == Seqs(CommandBytes, MaxCommandLen)

\* 'A', 'Z', 'a', 'z' and the characters next to the two letter ranges:
\* '@', '[', '`', '{', and '1', ' '
WordBytes == {65, 90, 97, 122, 64, 91, 96, 123, 49, 32}

\* the arguments of a constructor call: every u16, or a short text
NumberArg(n) == [kind |-> "number", number |-> n, word |-> <<>>]
WordArg(w) == [kind |-> "word", number |-> 0, word |-> w]

\* the Messages an application builds: Message::new / Message::from_strs
\* with a Command of commands::X(), responses::X() or Command::of_number
BuiltPrefixes ==
    { PrefixNone, Server(<<97>>), Server(<<97, 46, 97>>), of_nickname(<<97>>),
      of_nickname_host(<<97>>, <<97, 46, 97>>),
      of_nickname_user_host(<<97>>, <<97>>, <<97>>) }

BuiltCommands == {Word(PING), Word(PRIVMSG), Number(1), Number(42), Number(999)}

\* every prefix and command with short arguments, every argument list
\* without a prefix, and every prefix and command with one argument more
\* ("too many arguments", messages/privmsg.rs:80)
BuiltMessages ==
    {NewMessage(p, c, a) :
        p \in BuiltPrefixes, c \in BuiltCommands,
        a \in Seqs(Seqs(ArgBytes, 1), MaxArgs)}
    \cup
    {NewMessage(PrefixNone, Word(PING), a) :
        a \in Seqs(Seqs(ArgBytes, MaxArgLen), MaxArgs)}
    \cup
    {NewMessage(p, c, [k \in 1..(MaxArgs + 1) |-> <<97>>]) :
        p \in BuiltPrefixes, c \in BuiltCommands}

(***************************************************************************)
(* The state machine: a Message is built and serialised, or a line         *)
(* arrives; the wire text is parsed; the parsed Message is viewed.         *)
(***************************************************************************)
NoResult == [tag |-> "None", rest |-> <<>>, out |-> <<>>]

\* the parts of the state a specification does not use stay as they start
CodecIdle ==
    pc = "none" /\ msg = <<>> /\ wire = <<>> /\ result = NoResult /\ view = <<>>

CtorIdle == arg = <<>> /\ cmd = <<>>

SendIdle == tlog = <<>> /\ ret = "None"

ReaderIdle ==
    /\ stream = <<>> /\ ending = "eof" /\ api = "none" /\ pos = 0
    /\ rbuf = <<>> /\ buf = <<>> /\ rpc = "none" /\ calls = <<>>

InitBuilt ==
    /\ pc = "built"
    /\ msg \in {<<m>> : m \in BuiltMessages}
    /\ wire = <<>>
    /\ result = NoResult
    /\ view = <<>>
    /\ CtorIdle /\ SendIdle /\ ReaderIdle

InitLine(lines) ==
    /\ pc = "line"
    /\ msg = <<>>
    /\ wire \in lines
    /\ result = NoResult
    /\ view = <<>>
    /\ CtorIdle /\ SendIdle /\ ReaderIdle

\* format!("{}", message): Display for Message
Serialize ==
    /\ pc = "built"
    /\ wire' = DisplayMessage(msg[1])
    /\ pc' = "wire"
    /\ UNCHANGED <<msg, result, view, ctorVars, sendVars, readerVars>>

\* message(bytes)
Parse ==
    /\ pc \in {"wire", "line"}
    /\ result' = message(wire)
    /\ pc' = "parsed"
    /\ UNCHANGED <<msg, wire, view, ctorVars, sendVars, readerVars>>

\* parsed.as_privmsg()
AsPrivmsg ==
    /\ pc = "parsed"
    /\ result.tag = "Done"
    /\ view' = as_privmsg(result.out)
    /\ pc' = "viewed"
    /\ UNCHANGED <<msg, wire, result, ctorVars, sendVars, readerVars>>

\* parsed.as_ping().map(|ping| ping.pong()): the reply to a PING
Pong ==
    /\ pc = "parsed"
    /\ result.tag = "Done"
    /\ as_ping(result.out) # <<>>
    /\ view' = <<pong(as_ping(result.out)[1])>>
    /\ pc' = "ponged"
    /\ UNCHANGED <<msg, wire, result, ctorVars, sendVars, readerVars>>

Next == Serialize \/ Parse \/ AsPrivmsg \/ Pong

NextLine == Parse \/ AsPrivmsg

\* Messages built by the application, serialised and parsed back
Spec == InitBuilt /\ [][Next]_vars

\* lines with a prefix position
SpecPrefix == InitLine(PrefixLines) /\ [][NextLine]_vars

\* lines with parameters
SpecParams == InitLine(ParamLines) /\ [][NextLine]_vars

\* lines made of a command token
SpecCommand == InitLine(CommandLines) /\ [][NextLine]_vars

(***************************************************************************)
(* irc_stream.rs: IrcStream::send.  The transport is a TcpStream; tlog is  *)
(* what it has been asked to do, in order.  write! hands the formatted     *)
(* text to the stream piece by piece with write_all and stops at the first *)
(* piece the stream refuses, so that a failed write leaves a proper prefix *)
(* of the text on the stream.  TcpStream::flush returns Ok(()).            *)
(***************************************************************************)
WriteOp(data) == [op |-> "write", data |-> data]
FlushOp == [op |-> "flush", data |-> <<>>]

\* the text of send with a bare LF as the line end
send_text_lf(m) == DisplayMessage(m) \o <<10>>

\* irc_stream.rs:61  the text of "{}\r\n" for the message
send_text(m) == DisplayMessage(m) \o <<13, 10>>

\* send(&message), k the number of bytes the stream takes before a write
\* fails, Len(text) when none does
send(m, k) ==
    IF k < Len(send_text(m))
    THEN [tlog |-> <<WriteOp(Take(send_text(m), k))>>, ret |-> "Err"]
    ELSE [tlog |-> <<WriteOp(send_text(m)), FlushOp>>, ret |-> "Ok"]

Send ==
    /\ pc = "built"
    /\ \E k \in 0..Len(send_text(msg[1])) :
          /\ tlog' = tlog \o send(msg[1], k).tlog
          /\ ret' = send(msg[1], k).ret
    /\ pc' = "sent"
    /\ UNCHANGED <<msg, wire, result, view, ctorVars, readerVars>>

NextSend == Send

\* messages/privmsg.rs:38-40  Message::privmsg(to, text)
privmsg(to, text) == NewMessage(PrefixNone, Word(PRIVMSG), <<to, text>>)

\* 'a', CR, LF: the bytes of a text handed to Message::privmsg
TextBytes == {97, 13, 10}

\* the messages Message::privmsg builds for the target "a"
PrivmsgMessages == {privmsg(<<97>>, text) : text \in Seqs(TextBytes, MaxArgLen)}

InitSend ==
    /\ pc = "built"
    /\ msg \in {<<m>> : m \in BuiltMessages \cup PrivmsgMessages}
    /\ wire = <<>>
    /\ result = NoResult
    /\ view = <<>>
    /\ CtorIdle /\ SendIdle /\ ReaderIdle

\* Messages built by the application and sent
SpecSend == InitSend /\ [][NextSend]_vars

(***************************************************************************)
(* irc_stream.rs: IrcReader over a BufReader over a byte stream.           *)
(*                                                                         *)
(* stream is every byte the peer sends and ending what follows them: the   *)
(* end of the stream, or an error of the connection.  pos bytes have been  *)
(* read from the stream into the BufReader, rbuf is what the BufReader     *)
(* holds unread, buf the Vec of the latest next_message.  A read from the  *)
(* stream returns any positive number of the bytes that are left; which,   *)
(* is up to the network.  calls is what each finished call returned.       *)
(***************************************************************************)
\* io::Result<Message>, and the Option<Message> that .ok() makes of it
IoOk(m) == [kind |-> "Ok", msg |-> <<m>>, err |-> "none"]
IoErr(e) == [kind |-> "Err", msg |-> <<>>, err |-> e]
Some(m) == [kind |-> "Some", msg |-> <<m>>, err |-> "none"]
None == [kind |-> "None", msg |-> <<>>, err |-> "none"]
\* a failed assert! unwinds: the call returns nothing
Panicked == [kind |-> "Panic", msg |-> <<>>, err |-> "none"]

\* position of the last LF of s, 0 when it has none
LfIndexLast(s) ==
    IF contains(s, 10) THEN CHOOSE k \in 1..Len(s) : s[k] = 10 /\ ~contains(Drop(s, k), 10)
    ELSE 0

\* position of the first LF of s, 0 when it has none (memchr)
LfIndex(s) ==
    IF contains(s, 10) THEN CHOOSE k \in 1..Len(s) : s[k] = 10 /\ ~contains(Take(s, k - 1), 10)
    ELSE 0

\* read_until where what is buffered behind the delimiter is thrown away
read_until_step_drop_rest(available, b) ==
    IF LfIndex(available) > 0
    THEN [done |-> TRUE, buf |-> b \o Take(available, LfIndex(available)),
          rest |-> <<>>]
    ELSE [done |-> available = <<>>, buf |-> b \o available, rest |-> <<>>]

\* one turn of the loop of BufRead::read_until(b'\n', &mut buf) over the
\* bytes fill_buf made available: up to and with the delimiter they are
\* appended to buf and consumed, the rest stays buffered; without a
\* delimiter all are appended, and the loop ends when none were available
read_until_step(available, b) ==
    IF LfIndex(available) > 0
    THEN [done |-> TRUE, buf |-> b \o Take(available, LfIndex(available)),
          rest |-> Drop(available, LfIndex(available))]
    ELSE [done |-> available = <<>>, buf |-> b \o available, rest |-> <<>>]

\* next_message with the buffer of the call before it
kept_buf(old) == old

\* irc_stream.rs:72  let mut buf = Vec::new()
new_buf(old) == <<>>

\* irc_stream.rs:74-81  the match on what Message::parse returned
match_parse(p) ==
    IF p.ok
    THEN IF Len(p.remaining) = 0 THEN IoOk(p.msg[1]) ELSE Panicked
    ELSE IoErr("InvalidData")

\* what next_message returns once read_until has returned Ok with b in buf
next_message_result(b) == match_parse(parse(b))

\* irc_stream.rs:90  self.next_message().ok()
ok(r) ==
    CASE r.kind = "Ok" -> Some(r.msg[1])
      [] r.kind = "Err" -> None
      [] OTHER -> r

\* what the call that was made returns for the io::Result of next_message
Returned(a, r) == IF a = "next" THEN ok(r) ELSE r

\* a finished call: what it returned, the bytes it took off the stream and
\* how read_until came back: "line" with a delimiter, "eof" without one,
\* "error" with an error
CallRecord(a, r, b) ==
    [kind |-> Returned(a, r).kind, msg |-> Returned(a, r).msg,
     err |-> Returned(a, r).err, line |-> b,
     io |-> IF r.err = "ConnectionReset" THEN "error"
            ELSE IF contains(b, 10) THEN "line" ELSE "eof"]

\* the terminated lines and the unterminated ends a peer sends: "a", "b 1",
\* "a b:c", the empty line, "a" behind a bare LF; "a" and "b" CR unended
ReaderLines ==
    { <<97, 13, 10>>, <<98, 32, 49, 13, 10>>, <<97, 32, 98, 58, 99, 13, 10>>,
      <<13, 10>>, <<97, 10>> }

ReaderTails == { <<>>, <<97>>, <<98, 13>> }

RECURSIVE Concat(_)
Concat(ss) == IF ss = <<>> THEN <<>> ELSE ss[1] \o Concat(Drop(ss, 1))

ReaderStreams ==
    {Concat(ls) \o t : ls \in Seqs(ReaderLines, MaxLines), t \in ReaderTails}

\* calls made on a reader: enough to go twice past the end of the stream
MaxCalls == MaxLines + 3

InitReader ==
    /\ stream \in ReaderStreams
    /\ ending \in {"eof", "error"}
    /\ api \in {"next_message", "next"}
    /\ pos = 0
    /\ rbuf = <<>>
    /\ buf = <<>>
    /\ rpc = "idle"
    /\ calls = <<>>
    /\ CodecIdle /\ CtorIdle /\ SendIdle

\* reader.next_message() or reader.next() is called
Call ==
    /\ rpc = "idle"
    /\ Len(calls) < MaxCalls
    /\ buf' = new_buf(buf)
    /\ rpc' = "reading"
    /\ UNCHANGED <<stream, ending, api, pos, rbuf, calls, codecVars, ctorVars, sendVars>>

\* a turn of read_until: fill_buf finds bytes in the BufReader
ReadBuffered ==
    /\ rpc = "reading"
    /\ rbuf # <<>>
    /\ \E t \in {read_until_step(rbuf, buf)} :
          /\ rbuf' = t.rest
          /\ buf' = t.buf
          /\ rpc' = IF t.done THEN "read" ELSE "reading"
    /\ UNCHANGED <<stream, ending, api, pos, calls, codecVars, ctorVars, sendVars>>

\* a turn of read_until: fill_buf reads from the stream, which hands over
\* k bytes
ReadStream ==
    /\ rpc = "reading"
    /\ rbuf = <<>>
    /\ \E k \in 1..(Len(stream) - pos) :
          /\ pos' = pos + k
          /\ \E t \in {read_until_step(SubSeq(stream, pos + 1, pos + k), buf)} :
                /\ rbuf' = t.rest
                /\ buf' = t.buf
                /\ rpc' = IF t.done THEN "read" ELSE "reading"
    /\ UNCHANGED <<stream, ending, api, calls, codecVars, ctorVars, sendVars>>

\* a turn of read_until: fill_buf reads from the stream, which is at its
\* end, read returns 0 and read_until returns Ok with what buf holds
ReadEof ==
    /\ rpc = "reading"
    /\ rbuf = <<>>
    /\ pos = Len(stream)
    /\ ending = "eof"
    /\ \E t \in {read_until_step(<<>>, buf)} :
          /\ rbuf' = t.rest
          /\ buf' = t.buf
          /\ rpc' = IF t.done THEN "read" ELSE "reading"
    /\ UNCHANGED <<stream, ending, api, pos, calls, codecVars, ctorVars, sendVars>>

\* a turn of read_until: fill_buf reads from the stream, which fails; try!
\* returns the error from next_message and buf is dropped with what it held
ReadError ==
    /\ rpc = "reading"
    /\ rbuf = <<>>
    /\ pos = Len(stream)
    /\ ending = "error"
    /\ calls' = Append(calls, CallRecord(api, IoErr("ConnectionReset"), buf))
    /\ rpc' = "idle"
    /\ UNCHANGED <<stream, ending, api, pos, rbuf, buf, codecVars, ctorVars, sendVars>>

\* read_until has returned Ok: Message::parse(&buf[..]), the match on what
\* it returns, and the return of next_message or next
Return ==
    /\ rpc = "read"
    /\ \E m \in {message(buf)} :
       \E r \in {match_parse(crlf(m))} :
          /\ calls' = Append(calls, CallRecord(api, r, buf))
          /\ rpc' = IF r.kind = "Panic" THEN "panicked" ELSE "idle"
    /\ UNCHANGED <<stream, ending, api, pos, rbuf, buf, codecVars, ctorVars, sendVars>>

NextReader ==
    Call \/ ReadBuffered \/ ReadStream \/ ReadEof \/ ReadError \/ Return

SpecReader == InitReader /\ [][NextReader]_vars

\* 'a', ' ', CR, LF: the bytes of a stream that is not made of lines
StreamBytes == {97, 32, 13, 10}

\* every stream of these bytes up to MaxStreamLen
InitReaderBytes ==
    /\ stream \in Seqs(StreamBytes, MaxStreamLen)
    /\ ending \in {"eof", "error"}
    /\ api \in {"next_message", "next"}
    /\ pos = 0
    /\ rbuf = <<>>
    /\ buf = <<>>
    /\ rpc = "idle"
    /\ calls = <<>>
    /\ CodecIdle /\ CtorIdle /\ SendIdle

\* a reader over any bytes at all
SpecReaderBytes == InitReaderBytes /\ [][NextReader]_vars

(***************************************************************************)
(* client.rs: the reader thread of connect.  It owns a BufReader over the  *)
(* read side of the connection and one buf; read_until appends a line to   *)
(* buf, handle_line parses it and what it returns is what buf holds for    *)
(* the next read_until.  rpc is "reading" inside read_until, "read" when   *)
(* it has returned Ok and "exited" behind the loop.                        *)
(***************************************************************************)
\* client.rs:76-95  the match of handle_line on what Message::parse returned
handle_line_match(p) == IF p.ok THEN p.remaining ELSE <<>>

\* client.rs:75  handle_line(&buf)
handle_line(b) == handle_line_match(parse(b))

\* client.rs:49-53  the thread starts and calls read_until
InitClient ==
    /\ stream \in ReaderStreams
    /\ ending \in {"eof", "error"}
    /\ api = "client"
    /\ pos = 0
    /\ rbuf = <<>>
    /\ buf = <<>>
    /\ rpc = "reading"
    /\ calls = <<>>
    /\ CodecIdle /\ CtorIdle /\ SendIdle

\* client.rs:55-62  read_result.is_ok(): the body of the loop, handle_line,
\* buf.clear(), buf.append(&mut remaining), and read_until is called again
HandleLine ==
    /\ rpc = "read"
    /\ \E m \in {message(buf)} :
       \E p \in {crlf(m)} :
          buf' = handle_line_match(p)
    /\ rpc' = "reading"
    /\ UNCHANGED <<stream, ending, api, pos, rbuf, calls, codecVars, ctorVars, sendVars>>

\* client.rs:55,64  read_until returns the error of the stream,
\* read_result.is_ok() is false and the thread leaves the loop
ClientReadError ==
    /\ rpc = "reading"
    /\ rbuf = <<>>
    /\ pos = Len(stream)
    /\ ending = "error"
    /\ rpc' = "exited"
    /\ UNCHANGED <<stream, ending, api, pos, rbuf, buf, calls, codecVars, ctorVars, sendVars>>

NextClient ==
    ReadBuffered \/ ReadStream \/ ReadEof \/ ClientReadError \/ HandleLine

\* a return of read_until or a turn inside of it: the connection answers
\* every read
ReadTurn == ReadBuffered \/ ReadStream \/ ReadEof \/ ClientReadError

\* client.rs:55-62  once round the loop, from read_until returning Ok to
\* the next call of it, buf left with some end of what it held: the steps
\* of HandleLine, told by where they start and end
LoopTurn ==
    /\ rpc = "read"
    /\ rpc' = "reading"
    /\ buf' \in {Drop(buf, k) : k \in 0..Len(buf)}
    /\ UNCHANGED <<stream, ending, api, pos, rbuf, calls, codecVars, ctorVars, sendVars>>

\* the thread is scheduled and the connection answers every read: a read
\* that can return does, and the loop goes on when read_until returned Ok
SpecClient ==
    InitClient /\ [][NextClient]_vars /\ WF_vars(ReadTurn) /\ WF_vars(LoopTurn)

(***************************************************************************)
(* The state machine of the Command constructors: the application calls    *)
(* Command::of_number or Command::of_word and formats the Command it got.   *)
(***************************************************************************)
InitCtor ==
    /\ pc = "call"
    /\ arg \in {<<NumberArg(n)>> : n \in 0..U16Max}
              \cup {<<WordArg(w)>> : w \in Seqs(WordBytes, MaxWordLen)}
    /\ cmd = <<>>
    /\ msg = <<>> /\ wire = <<>> /\ result = NoResult /\ view = <<>>
    /\ SendIdle /\ ReaderIdle

\* Command::of_number(number)
OfNumber ==
    /\ pc = "call"
    /\ arg[1].kind = "number"
    /\ cmd' = of_number(arg[1].number)
    /\ pc' = IF cmd' = <<>> THEN "panicked" ELSE "made"
    /\ UNCHANGED <<msg, wire, result, view, arg, sendVars, readerVars>>

\* Command::of_word(word)
OfWord ==
    /\ pc = "call"
    /\ arg[1].kind = "word"
    /\ cmd' = of_word(arg[1].word)
    /\ pc' = IF cmd' = <<>> THEN "panicked" ELSE "made"
    /\ UNCHANGED <<msg, wire, result, view, arg, sendVars, readerVars>>

\* format!("{}", command): Display for Command
FormatCommand ==
    /\ pc = "made"
    /\ wire' = DisplayCommand(cmd[1])
    /\ pc' = "shown"
    /\ UNCHANGED <<msg, result, view, ctorVars, sendVars, readerVars>>

NextCtor == OfNumber \/ OfWord \/ FormatCommand

SpecCtor == InitCtor /\ [][NextCtor]_vars

(***************************************************************************)
(* Properties.                                                             *)
(***************************************************************************)
NoSpace(s) == ~contains(s, 32)

\* C1: round trip.  For every built Message none of whose arguments
\* contains a space, parsing its serialised text gives back an equal
\* Message and leaves no bytes unconsumed.
RoundTrip ==
    (pc = "parsed" /\ msg # <<>>
        /\ \A k \in 1..Len(msg[1].arguments) : NoSpace(msg[1].arguments[k]))
    => result = Done(<<>>, msg[1])

\* the text a prefix contributes: nothing, or ':' prefix ' '
PrefixText(p) ==
    IF p.kind = "None" THEN <<>>
    ELSE COLON \o (IF p.kind = "Server" THEN p.host ELSE DisplayUserInfo(p)) \o SP

\* 1 when argument i is written with a leading ':', else 0
ColonMark(args, i) == IF i = Len(args) /\ ~NoSpace(args[i]) THEN 1 ELSE 0

\* the number of bytes arguments 1..i occupy on the wire
RECURSIVE ArgsWidth(_, _)
ArgsWidth(args, i) ==
    IF i = 0 THEN 0
    ELSE ArgsWidth(args, i - 1) + 1 + ColonMark(args, i) + Len(args[i])

\* C2: the serialised form of a Message is, in this order, ':' prefix ' '
\* for a Server or User prefix (nothing for None), the command's display
\* form, then each argument behind exactly one space; the last argument
\* also gets a ':' in front exactly when it contains a space, and no other
\* argument gets one.
SerializedLayout ==
    (pc # "built" /\ msg # <<>>) =>
        LET m == msg[1]
            args == m.arguments
            pt == PrefixText(m.prefix)
            ct == DisplayCommand(m.command)
            head == Len(pt) + Len(ct)
        IN  /\ Len(wire) = head + ArgsWidth(args, Len(args))
            /\ Take(wire, Len(pt)) = pt
            /\ SubSeq(wire, Len(pt) + 1, head) = ct
            /\ \A i \in 1..Len(args) :
                 LET o == head + ArgsWidth(args, i - 1) + 1
                     k == ColonMark(args, i)
                 IN  /\ wire[o] = 32
                     /\ (k = 1 => wire[o + 1] = 58)
                     /\ SubSeq(wire, o + k + 1, o + k + Len(args[i])) = args[i]

\* C2 witness: a serialised Message with a User prefix whose last argument
\* and an earlier argument both contain a space
SerializedLayoutWitness ==
    /\ pc = "wire"
    /\ msg # <<>>
    /\ IsUser(msg[1].prefix)
    /\ Len(msg[1].arguments) = 2
    /\ ~NoSpace(msg[1].arguments[1])
    /\ ~NoSpace(msg[1].arguments[2])

\* the position of the first space of w, 0 when it has none
FirstSpace(w) ==
    IF NoSpace(w) THEN 0
    ELSE CHOOSE k \in 1..Len(w) : w[k] = 32 /\ \A j \in 1..(k - 1) : w[j] # 32

\* w starts with ':' and the token behind it is ended by a space
HasPrefixToken(w) == Len(w) >= 1 /\ w[1] = 58 /\ ~NoSpace(w)

\* the bytes between the leading ':' and the first space
PrefixToken(w) == SubSeq(w, 2, FirstSpace(w) - 1)

\* the bytes behind the space that ends the prefix token
AfterToken(w) == Drop(w, FirstSpace(w))

\* the byte classes of the prefix grammar: letters and digits; nickname
\* bytes add the specials [ \ ] ^ _ ` { | } and '-', host bytes '.' and
\* ':', and a username byte is any byte but NUL, CR, LF, ' ' and '@'
LetterDigitBytes == (65..90) \cup (97..122) \cup (48..57)
NickBytes == LetterDigitBytes \cup (91..96) \cup (123..125) \cup {45}
HostBytes == LetterDigitBytes \cup {46, 58}
UserBytes == (1..255) \ {10, 13, 32, 64}

NickOnly(s) == Len(s) >= 1 /\ \A k \in 1..Len(s) : s[k] \in NickBytes
UserOnly(s) == Len(s) >= 1 /\ \A k \in 1..Len(s) : s[k] \in UserBytes
HostOnly(s) == Len(s) >= 1 /\ \A k \in 1..Len(s) : s[k] \in HostBytes

Parsed == pc \in {"parsed", "viewed"}

\* the prefix rule turns the token of the line into p, consuming the space,
\* and a Message parsed from the line carries p
ParsedPrefixIs(p) ==
    /\ prefix(wire) = Done(AfterToken(wire), p)
    /\ result.tag = "Done" => result.out.prefix = p

\* C3: a line starting with ':nick!user@host ' parses to the prefix
\* User(nick, user, host) and a line starting with ':nick@host ' to
\* User(nick, host): the full form is tried first and an alternative that
\* failed has no effect on the next.
PrefixLongForms ==
    (Parsed /\ HasPrefixToken(wire)) =>
        LET tok == PrefixToken(wire) IN
        /\ \A i, j \in 1..Len(tok) :
             ( /\ i < j /\ tok[i] = 33 /\ tok[j] = 64
               /\ NickOnly(Take(tok, i - 1))
               /\ UserOnly(SubSeq(tok, i + 1, j - 1))
               /\ HostOnly(Drop(tok, j)) )
             => ParsedPrefixIs(of_nickname_user_host(
                    Take(tok, i - 1), SubSeq(tok, i + 1, j - 1), Drop(tok, j)))
        /\ \A j \in 1..Len(tok) :
             (tok[j] = 64 /\ NickOnly(Take(tok, j - 1)) /\ HostOnly(Drop(tok, j)))
             => ParsedPrefixIs(of_nickname_host(Take(tok, j - 1), Drop(tok, j)))

\* C3 witness: the line ":a!#@a PING" parsed to a Message whose prefix is
\* the full user form
PrefixLongFormsWitness ==
    /\ pc = "parsed"
    /\ wire = <<58, 97, 33, 35, 64, 97>> \o PingTail
    /\ result.tag = "Done"
    /\ result.out.prefix = of_nickname_user_host(<<97>>, <<35>>, <<97>>)

HostTokenIsServer ==
    ( /\ Parsed /\ HasPrefixToken(wire)
      /\ HostOnly(PrefixToken(wire)) /\ ~NickOnly(PrefixToken(wire)) )
    => /\ ParsedPrefixIs(Server(PrefixToken(wire)))
       /\ pc = "viewed" => view = <<>>

\* C5 witness: ":a.a PRIVMSG a b" parsed with a Server prefix and viewed
HostTokenIsServerWitness ==
    /\ pc = "viewed"
    /\ wire = <<58, 97, 46, 97>> \o PrivmsgTail
    /\ result.out.prefix = Server(<<97, 46, 97>>)
    /\ result.out.command = Word(PRIVMSG)
    /\ Len(result.out.arguments) = 2
    /\ view = <<>>

\* the bytes of a line from the first space on: its parameters
Body(w) == IF NoSpace(w) THEN <<>> ELSE Drop(w, FirstSpace(w) - 1)

\* the command token of a line without a prefix: the bytes before the
\* first space
CommandToken(w) == IF NoSpace(w) THEN w ELSE Take(w, FirstSpace(w) - 1)

\* the length of the first token of s: up to, not including, its first space
TokenLen(s) == IF NoSpace(s) THEN Len(s) ELSE FirstSpace(s) - 1

\* no NUL, CR or LF
NoLineBreak(s) == \A k \in 1..Len(s) : s[k] \notin {0, 13, 10}

\* b is a list of parameters, each behind exactly one space: non-empty
\* tokens not starting with ':', and possibly a last one starting with ':'
RECURSIVE WellFormedParams(_)
WellFormedParams(b) ==
    \/ b = <<>>
    \/ /\ Len(b) >= 2
       /\ b[1] = 32
       /\ \/ b[2] = 58
          \/ /\ b[2] # 32
             /\ WellFormedParams(Drop(b, 1 + TokenLen(Drop(b, 1))))

\* the arguments of a well-formed parameter list: a parameter not starting
\* with ':' ends at the next space, one starting with ':' takes the rest
RECURSIVE SplitParams(_)
SplitParams(b) ==
    IF b = <<>> THEN <<>>
    ELSE IF b[2] = 58 THEN <<Drop(b, 2)>>
    ELSE <<SubSeq(b, 2, 1 + TokenLen(Drop(b, 1)))>>
         \o SplitParams(Drop(b, 1 + TokenLen(Drop(b, 1))))

\* a command token: letters only, or one to three digits
WellFormedCommand(s) ==
    /\ Len(s) >= 1
    /\ \/ \A k \in 1..Len(s) : is_letter(s[k])
       \/ Len(s) <= 3 /\ \A k \in 1..Len(s) : is_digit(s[k])

\* C6: parameter splitting.  After the command each parameter is
\* introduced by exactly one space; a parameter whose first byte is not ':'
\* ends at the next space, and one whose first byte is ':' takes everything
\* up to the end of the line, without that ':', as the single last
\* argument.  "005 nick A B :C D E" gives Number(5) and [nick, A, B, C D E].
ParamSplitting ==
    ( /\ Parsed /\ msg = <<>>
      /\ WellFormedCommand(CommandToken(wire))
      /\ NoLineBreak(wire) /\ from_utf8_ok(wire)
      /\ WellFormedParams(Body(wire)) )
    => /\ result.tag = "Done"
       /\ result.rest = <<>>
       /\ result.out.arguments = SplitParams(Body(wire))

\* s is a parameter token with a ':' behind its first byte
InteriorColonToken(s) ==
    /\ Len(s) >= 2
    /\ nospcrlfcl(s[1])
    /\ \A k \in 1..Len(s) : nospcrlfcl(s[k]) \/ s[k] = 58
    /\ \E k \in 2..Len(s) : s[k] = 58

\* C7: a middle parameter may hold colons behind its first byte: it is one
\* argument, and the parameters that follow it are still parsed.
InteriorColonIsData ==
    ( /\ Parsed /\ msg = <<>> /\ CommandToken(wire) = PING
      /\ from_utf8_ok(wire)
      /\ Len(Body(wire)) >= 1
      /\ InteriorColonToken(SubSeq(Body(wire), 2, 1 + TokenLen(Drop(Body(wire), 1))))
      /\ WellFormedParams(Drop(Body(wire), 1 + TokenLen(Drop(Body(wire), 1))))
      /\ NoLineBreak(wire) )
    => /\ result.tag = "Done"
       /\ Len(result.out.arguments)
            = 1 + Len(SplitParams(Drop(Body(wire), 1 + TokenLen(Drop(Body(wire), 1)))))
       /\ result.out.arguments[1]
            = SubSeq(Body(wire), 2, 1 + TokenLen(Drop(Body(wire), 1)))

AllDigits(s) == \A k \in 1..Len(s) : is_digit(s[k])

\* a command token of four or more digits, or of letters and digits mixed
MalformedCommand(s) ==
    \/ Len(s) >= 4 /\ AllDigits(s)
    \/ /\ \A k \in 1..Len(s) : is_letter(s[k]) \/ is_digit(s[k])
       /\ \E k \in 1..Len(s) : is_letter(s[k])
       /\ \E k \in 1..Len(s) : is_digit(s[k])

\* C8: a line whose command token is malformed gives a parse error, never
\* a Message.
MalformedCommandRejected ==
    (Parsed /\ msg = <<>> /\ MalformedCommand(CommandToken(wire)))
    => result.tag = "Error"

\* C9: the parser yields a Message only when CR LF closes the line, and
\* reports "need more bytes" for a well-formed line without CR LF.
TerminatorRequired ==
    (Parsed /\ msg = <<>>) =>
        /\ result.tag = "Done" =>
             \E k \in 1..(Len(wire) - 1) :
                 wire[k] = 13 /\ wire[k + 1] = 10 /\ result.rest = Drop(wire, k + 1)
        /\ ( /\ CommandToken(wire) = PING /\ NoLineBreak(wire) /\ from_utf8_ok(wire)
             /\ WellFormedParams(Body(wire)) )
           => result.tag = "Incomplete"

\* String::from_utf8_lossy on the bytes of this model: each 0xFF becomes
\* U+FFFD, the bytes EF BF BD
RECURSIVE Lossy(_)
Lossy(s) ==
    IF s = <<>> THEN <<>>
    ELSE (IF s[1] = 255 THEN <<239, 191, 189>> ELSE <<s[1]>>) \o Lossy(Drop(s, 1))

\* C10: a well-formed line with a parameter that is not UTF-8 still parses
\* to a Message, the invalid bytes replaced by U+FFFD and every other
\* argument unchanged.
DecodeLeniency ==
    ( /\ Parsed /\ msg = <<>> /\ CommandToken(wire) = PING
      /\ NoLineBreak(wire) /\ WellFormedParams(Body(wire))
      /\ contains(Body(wire), 255) )
    => /\ result.tag = "Done"
       /\ result.out.command = Word(PING)
       /\ Len(result.out.arguments) = Len(SplitParams(Body(wire)))
       /\ \A k \in 1..Len(result.out.arguments) :
            result.out.arguments[k] = Lossy(SplitParams(Body(wire))[k])

\* the parsed Message is a PING that has been answered
Ponged == pc = "ponged" /\ result.tag = "Done" /\ Len(view) = 1

\* C17 as stated: the PONG built for a PING differs from the PING in
\* nothing but the command.
PongDiffersOnlyInCommand ==
    Ponged => view[1] = [result.out EXCEPT !.command = Word(PONG)]

\* C17: the PONG built for a PING has exactly the argument list of the
\* PING, the command PONG and no prefix, so that it differs from the PING
\* in the command and in the prefix the PING may have carried.
PongEchoesArguments ==
    Ponged =>
        /\ view[1].arguments = result.out.arguments
        /\ view[1].command.kind = "Word"
        /\ view[1].command.word = <<80, 79, 78, 71>>
        /\ view[1].prefix.kind = "None"

PongEchoesArgumentsWitness ==
    /\ Ponged
    /\ result.out.prefix.kind # "None"
    /\ Len(result.out.arguments) = 2
    /\ view[1].arguments = result.out.arguments

\* the parsed Message has been asked for its PRIVMSG view
Viewed == pc = "viewed" /\ result.tag = "Done"

\* a PRIVMSG from a user to one target with one text
IsPrivmsgShape(m) ==
    /\ m.command.kind = "Word"
    /\ m.command.word = <<80, 82, 73, 86, 77, 83, 71>>
    /\ m.prefix.kind \in {"Nick", "NickHost", "NickUserHost"}
    /\ Len(m.arguments) = 2

\* C18: as_privmsg gives a view exactly when the command is PRIVMSG, the
\* prefix is a user and there are exactly two arguments; the view's from is
\* the prefix's user, its to the first argument and its text the second;
\* in every other case there is no view.
PrivmsgFailClosed ==
    Viewed =>
        /\ (view # <<>>) <=> IsPrivmsgShape(result.out)
        /\ view # <<>> =>
              /\ Len(view) = 1
              /\ view[1].from = result.out.prefix
              /\ view[1].to = result.out.arguments[1]
              /\ view[1].text = result.out.arguments[2]

PrivmsgFailClosedWitness ==
    /\ Viewed
    /\ IsPrivmsgShape(result.out)
    /\ result.out.prefix.kind = "NickUserHost"
    /\ view # <<>>

\* the fail-closed cases of C18 that the inputs reach
PrivmsgTooManyArguments ==
    /\ Viewed
    /\ result.out.command.word = <<80, 82, 73, 86, 77, 83, 71>>
    /\ result.out.prefix.kind = "Nick"
    /\ Len(result.out.arguments) = 3
    /\ view = <<>>

PrivmsgServerPrefix ==
    /\ Viewed
    /\ result.out.command.word = <<80, 82, 73, 86, 77, 83, 71>>
    /\ result.out.prefix.kind = "Server"
    /\ Len(result.out.arguments) = 2
    /\ view = <<>>

\* a constructor has been called with a number, with a text
NumberCalled == pc # "call" /\ Len(arg) = 1 /\ arg[1].kind = "number"

WordCalled == pc # "call" /\ Len(arg) = 1 /\ arg[1].kind = "word"

\* C19: for every n in 0..999 Command::of_number(n) gives a numeric Command
\* of value n whose display is the decimal of n in exactly three digits,
\* zero-padded on the left; for n above 999 the construction fails.
NumberConstruction ==
    NumberCalled =>
        LET n == arg[1].number IN
        /\ n <= 999 =>
              /\ pc \in {"made", "shown"}
              /\ Len(cmd) = 1 /\ cmd[1].kind = "Number" /\ cmd[1].number = n
              /\ pc = "shown" =>
                    /\ Len(wire) = 3
                    /\ \A k \in 1..3 : wire[k] \in 48..57
                    /\ 100 * (wire[1] - 48) + 10 * (wire[2] - 48) + (wire[3] - 48) = n
        /\ n > 999 => pc = "panicked" /\ cmd = <<>>

NumberConstructionWitness ==
    /\ NumberCalled
    /\ arg[1].number = 42
    /\ pc = "shown"
    /\ wire = <<48, 52, 50>>

\* the failing side of C19: 1000 is refused
NumberTooLarge == NumberCalled /\ arg[1].number = 1000 /\ pc = "panicked"

\* C20: Command::of_word(text) gives a Command exactly when text is not
\* empty and every character of it is an ASCII letter; the empty text and
\* a text with any other character are refused.
WordConstruction ==
    WordCalled =>
        LET w == arg[1].word IN
        (cmd # <<>>) <=>
            ( /\ w # <<>>
              /\ \A k \in 1..Len(w) : w[k] \in (65..90) \cup (97..122) )

\* every byte the transport has been given, in order
RECURSIVE Written(_)
Written(log) ==
    IF log = <<>> THEN <<>>
    ELSE (IF log[1].op = "write" THEN log[1].data ELSE <<>>) \o Written(Drop(log, 1))

\* C15: when send returns success the transport has been written exactly
\* the serialised Message followed by CR LF and has been flushed once,
\* after the write and as the last thing before send returns; when the
\* write fails send returns the error and has not flushed.
SendWritesLine ==
    (pc = "sent" /\ Len(msg) = 1) =>
        LET line == DisplayMessage(msg[1]) \o <<13, 10>> IN
        /\ ret \in {"Ok", "Err"}
        /\ ret = "Ok" =>
              /\ Written(tlog) = line
              /\ tlog[Len(tlog)].op = "flush"
              /\ \A k \in 1..(Len(tlog) - 1) : tlog[k].op = "write"
        /\ Written(tlog) # line =>
              /\ ret = "Err"
              /\ \A k \in 1..Len(tlog) : tlog[k].op = "write"

SendWritesLineWitness ==
    /\ pc = "sent" /\ ret = "Ok"
    /\ Len(msg[1].arguments) = 2
    /\ msg[1].prefix.kind = "NickUserHost"
    /\ Len(tlog) = 2 /\ tlog[2].op = "flush"

\* the failing side of C15: the write failed part of the way
SendWriteFailed ==
    /\ pc = "sent" /\ ret = "Err"
    /\ Len(Written(tlog)) = 3

\* the position of the first LF of a byte string that has one
FirstLf(s) == CHOOSE k \in 1..Len(s) : s[k] = 10 /\ \A j \in 1..(k - 1) : s[j] # 10

\* the LF-terminated lines of a byte string, each with its terminator
RECURSIVE SplitLines(_)
SplitLines(s) ==
    IF \A k \in 1..Len(s) : s[k] # 10 THEN <<>>
    ELSE <<SubSeq(s, 1, FirstLf(s))>> \o SplitLines(SubSeq(s, FirstLf(s) + 1, Len(s)))

\* the bytes behind the last LF of a byte string
RECURSIVE Unterminated(_)
Unterminated(s) ==
    IF \A k \in 1..Len(s) : s[k] # 10 THEN s
    ELSE Unterminated(SubSeq(s, FirstLf(s) + 1, Len(s)))

StreamLines == SplitLines(stream)

\* the bytes the finished calls took off the stream, in order
RECURSIVE TakenBy(_)
TakenBy(cs) == IF cs = <<>> THEN <<>> ELSE cs[1].line \o TakenBy(SubSeq(cs, 2, Len(cs)))

\* a line without a prefix that the grammar accepts: a command of letters,
\* parameters, CR LF
WellFormedLine(l) ==
    /\ Len(l) >= 3
    /\ l[Len(l) - 1] = 13 /\ l[Len(l)] = 10
    /\ LET body == SubSeq(l, 1, Len(l) - 2) IN
       /\ \A k \in 1..Len(body) : body[k] \notin {0, 13, 10} /\ body[k] < 128
       /\ CommandToken(body) # <<>>
       /\ \A k \in 1..Len(CommandToken(body)) :
             CommandToken(body)[k] \in (65..90) \cup (97..122)
       /\ WellFormedParams(Body(body))

\* the Message of a well-formed line without a prefix
LineMessage(l) ==
    LET body == SubSeq(l, 1, Len(l) - 2) IN
    [prefix |-> [kind |-> "None", nick |-> <<>>, user |-> <<>>, host |-> <<>>],
     command |-> [kind |-> "Word", word |-> CommandToken(body), number |-> 0],
     arguments |-> SplitParams(Body(body))]

\* C11: ordered delivery.  On a stream of n well-formed CR LF terminated
\* lines followed by the end of the stream, the i-th call returns the
\* Message of the i-th line for i up to n, and every call after the n-th
\* returns an error (next_message) or ends the iteration (next).
OrderedDelivery ==
    ( /\ api \in {"next_message", "next"}
      /\ ending = "eof"
      /\ Unterminated(stream) = <<>>
      /\ \A i \in 1..Len(StreamLines) : WellFormedLine(StreamLines[i]) )
    => \A i \in 1..Len(calls) :
         IF i <= Len(StreamLines)
         THEN /\ calls[i].kind \in {"Ok", "Some"}
              /\ calls[i].msg = <<LineMessage(StreamLines[i])>>
         ELSE calls[i].kind \in {"Err", "None"}

\* what the i-th call on a reader returns, told from the bytes of the
\* stream and what ends it alone
ExpectedCall(i) ==
    LET n == Len(StreamLines)
        last == IF i = n + 1 THEN Unterminated(stream) ELSE <<>>
    IN
    IF i <= n
    THEN CallRecord(api, next_message_result(StreamLines[i]), StreamLines[i])
    ELSE IF ending = "eof"
    THEN CallRecord(api, next_message_result(last), last)
    ELSE CallRecord(api, IoErr("ConnectionReset"), last)

\* C12: chunking independence.  What the successive calls return depends
\* on the bytes of the stream only, not on how the reads of the transport
\* split them; bytes read behind a terminator are kept for the next call.
ChunkingIndependence ==
    api \in {"next_message", "next"} =>
        \A i \in 1..Len(calls) : calls[i] = ExpectedCall(i)

\* C12 witness: one read handed over "a" CR LF "b 1" CR LF, the first call
\* returned the Message of "a" and the second line is held for the next
ChunkingIndependenceWitness ==
    /\ rpc = "idle"
    /\ stream = <<97, 13, 10, 98, 32, 49, 13, 10>>
    /\ Len(calls) = 1
    /\ calls[1].kind = "Ok"
    /\ calls[1].line = <<97, 13, 10>>
    /\ rbuf = <<98, 32, 49, 13, 10>>

\* the other split of C12: the same stream read one byte at a time has
\* given both Messages
ByteAtATime ==
    /\ rpc = "idle"
    /\ stream = <<97, 13, 10, 98, 32, 49, 13, 10>>
    /\ Len(calls) = 2
    /\ calls[2].kind = "Ok"
    /\ pos = 8 /\ rbuf = <<>>

\* C13: no silent drop, and recovery.  Every byte read is in the line of
\* exactly one call or still buffered; each LF-terminated line is the line
\* of exactly one call, which returns a Message or a parse failure; and
\* the call after one that failed to parse returns the result for the
\* line that follows immediately.
NoSilentDrop ==
    api \in {"next_message", "next"} =>
        /\ TakenBy(calls) \o (IF rpc \in {"reading", "read"} THEN buf ELSE <<>>) \o rbuf
             = SubSeq(stream, 1, pos)
        /\ \A i \in 1..Len(calls) :
             i <= Len(StreamLines) =>
                /\ calls[i].line = StreamLines[i]
                /\ calls[i].io = "line"
                /\ \/ calls[i].kind \in {"Ok", "Some"} /\ Len(calls[i].msg) = 1
                   \/ calls[i].kind = "Err" /\ calls[i].err = "InvalidData"
                   \/ calls[i].kind = "None"
        /\ \A i \in 1..(Len(calls) - 1) :
             (i + 1 <= Len(StreamLines) /\ calls[i].kind \in {"Err", "None"}) =>
                /\ calls[i + 1].line = StreamLines[i + 1]
                /\ calls[i + 1].msg = next_message_result(StreamLines[i + 1]).msg

\* C13 witness: the empty line failed to parse and the call after it
\* returned the Message of the line "b 1" behind it
NoSilentDropWitness ==
    /\ api = "next_message"
    /\ Len(calls) = 2
    /\ calls[1].kind = "Err" /\ calls[1].line = <<13, 10>>
    /\ calls[2].kind = "Ok" /\ calls[2].line = <<98, 32, 49, 13, 10>>
    /\ calls[2].msg[1].command.word = <<98>>
    /\ calls[2].msg[1].arguments = <<<<49>>>>

\* C14: the error next_message returns for a line that fails to parse
\* differs in kind from the error it returns when the stream fails or is
\* at its end.
ErrorKindsDistinct ==
    api = "next_message" =>
        \A i, j \in 1..Len(calls) :
            ( /\ calls[i].kind = "Err" /\ calls[i].io = "line"
              /\ calls[j].kind = "Err" /\ calls[j].io \in {"eof", "error"} )
            => calls[i].err # calls[j].err

\* C16: once next() has returned None every later call of next() returns
\* None, whatever is left unread in the stream.
IterationStaysStopped ==
    api = "next" =>
        \A i, j \in 1..Len(calls) :
            (i < j /\ calls[i].kind = "None") => calls[j].kind = "None"

\* the bytes of the line the message rule has used up
Used == SubSeq(wire, 1, Len(wire) - Len(result.rest))

\* where the first " :" of a byte string stands, 0 when it has none
FirstSpaceColon(s) ==
    IF \E j \in 1..(Len(s) - 1) : s[j] = 32 /\ s[j + 1] = 58
    THEN CHOOSE j \in 1..(Len(s) - 1) :
            /\ s[j] = 32 /\ s[j + 1] = 58
            /\ \A i \in 1..(j - 1) : ~(s[i] = 32 /\ s[i + 1] = 58)
    ELSE 0

\* neither a space nor a ':' and not empty: the shape of a middle parameter
MiddleShape(a) == Len(a) >= 1 /\ \A k \in 1..Len(a) : a[k] \notin {32, 58}

\* C22: in every Message the parser produces no argument but the last
\* contains a space; an argument that came from a ':'-introduced parameter
\* is the last one and is everything behind the first " :" the parser
\* used up, so that there is at most one; every other argument has the
\* shape of a middle parameter.
ParsedArgumentShape ==
    (Parsed /\ msg = <<>> /\ result.tag = "Done") =>
        LET args == result.out.arguments
            j == FirstSpaceColon(Used)
        IN
        /\ \A k \in 1..(Len(args) - 1) : MiddleShape(args[k])
        /\ IF j > 0
           THEN /\ Len(args) >= 1
                /\ args[Len(args)] = SubSeq(Used, j + 2, Len(Used))
           ELSE \A k \in 1..Len(args) : MiddleShape(args[k])

\* C22 witness: "005 nick A B :C D E" parsed to four arguments, the last
\* one the trailing "C D E"
ParsedArgumentShapeWitness ==
    /\ pc = "parsed"
    /\ result.tag = "Done"
    /\ Len(result.out.arguments) = 4
    /\ result.out.arguments[3] = <<66>>
    /\ result.out.arguments[4] = <<67, 32, 68, 32, 69>>

\* the digits a line starts with, and their decimal value
RECURSIVE LeadingDigits(_)
LeadingDigits(w) ==
    IF w = <<>> \/ w[1] \notin 48..57 THEN <<>>
    ELSE <<w[1] - 48>> \o LeadingDigits(SubSeq(w, 2, Len(w)))

RECURSIVE ValueOf(_)
ValueOf(ds) ==
    IF ds = <<>> THEN 0
    ELSE ds[Len(ds)] + 10 * ValueOf(SubSeq(ds, 1, Len(ds) - 1))

\* C24: whenever the parser accepts a numeric command the Number it gives
\* is the decimal value of the digits it used up, also for digits whose
\* value does not fit in 16 bits.
NumericValueExact ==
    ( /\ Parsed /\ msg = <<>> /\ result.tag = "Done"
      /\ result.out.command.kind = "Number" )
    => result.out.command.number = ValueOf(LeadingDigits(wire))

\* where a CR LF sequence starts in a byte string
CrLfStarts(s) == {k \in 1..(Len(s) - 1) : s[k] = 13 /\ s[k + 1] = 10}

\* C23: the bytes one successful send has written contain exactly one
\* CR LF sequence and it is their end, also for a Message with CR or LF
\* bytes in an argument.
OneSendOneLine ==
    (pc = "sent" /\ Len(msg) = 1 /\ ret = "Ok") =>
        CrLfStarts(Written(tlog)) = {Len(Written(tlog)) - 1}

\* C21: next_message never aborts: every finished call has returned a
\* Message or an error (Some or None through next), no call has unwound,
\* and whenever the bytes read_until has put in buf parse successfully
\* the parser has left none of them unconsumed.
NextMessageNeverAborts ==
    /\ rpc # "panicked"
    /\ \A k \in 1..Len(calls) :
          /\ calls[k].kind \in {"Ok", "Err", "Some", "None"}
          /\ calls[k].kind \in {"Ok", "Some"} => Len(calls[k].msg) = 1
    /\ rpc = "read" =>
          LET p == parse(buf) IN p.ok => Len(p.remaining) = 0

\* C21 witness: next_message has returned an error for a bare LF and then
\* the Message of "a" CR LF, whose bytes the parser consumed to the last
NextMessageNeverAbortsWitness ==
    /\ rpc = "idle"
    /\ Len(calls) = 2
    /\ calls[1].kind = "Err" /\ calls[1].err = "InvalidData"
    /\ calls[1].line = <<10>>
    /\ calls[2].kind = "Ok"
    /\ calls[2].line = <<97, 13, 10>>
    /\ parse(calls[2].line).remaining = <<>>

\* the connection has nothing more to give: every byte of the stream has
\* been read, the next read returns zero bytes or the error
ConnectionEnded == pos = Len(stream)

\* C25: once the connection has reached its end-of-stream or reports a
\* read error the reader loop of connect eventually exits.
ReaderLoopExits == ConnectionEnded ~> (rpc = "exited")

====
